---- MODULE Spec2Model ----
(***************************************************************************)
(* Model of the VPE object-file back end:                                  *)
(*   - X86VPEObjectWriter::getRelocType   (X86VPEObjectWriter.cpp)         *)
(*   - MCSymbolVPE                        (MCSymbolVPE.h)                  *)
(*   - VPEImportFile / VPEShortExport     (VPEImportFile.h)                *)
(* Each component has its own specification over the shared variables; the *)
(* variables of the other components stay at their initial values.         *)
(***************************************************************************)
EXTENDS Integers, Sequences, FiniteSets, TLC

VARIABLES
  \* --- relocation resolver -------------------------------------------
  Is64Bit,      \* constructor argument of X86VPEObjectWriter (fixes getMachine())
  call,         \* arguments of the last getRelocType call, or NoCall
  ret,          \* value returned by the last getRelocType call
  reported,     \* diagnostics passed to Ctx.reportError by the last call
  HadError,     \* Ctx: some diagnostic has been reported so far
  \* --- MCSymbolVPE ---------------------------------------------------
  Type,         \* MCSymbolVPE::Type
  Flags,        \* MCSymbol flags word read by getFlags()
  lastOp,       \* name of the last mutator called on the symbol
  prevOp,       \* name of the mutator called before lastOp
  lastClassArg, \* argument of the most recent setClass call, -1 if none
  weakCalled,   \* setIsWeakExternal has been called at least once
  classInRange, \* every setClass argument so far fitted the 8-bit class field
  \* --- VPEImportFile -------------------------------------------------
  record,       \* the short-import record behind the file's buffer
  Symb,         \* DataRefImpl.p of the iterator walking the symbol view
  printed,      \* names printed so far, one per visited entry
  iterDone,     \* the iterator compared equal to symbol_end()
  \* --- VPEShortExport ------------------------------------------------
  L, R,         \* two export descriptors
  compared,     \* the two comparisons have been evaluated
  eqResult,     \* result of L == R (FALSE before the comparison)
  neResult      \* result of L != R (FALSE before the comparison)

relocVars  == <<Is64Bit, call, ret, reported, HadError>>
symbolVars == <<Type, Flags, lastOp, prevOp, lastClassArg, weakCalled,
               classInRange>>
importVars == <<record, Symb, printed, iterDone>>
exportVars == <<L, R, compared, eqResult, neResult>>
vars == <<relocVars, symbolVars, importVars, exportVars>>

(***************************************************************************)
(* Relocation resolver                                                     *)
(***************************************************************************)

\* Generic fixup kinds (MCFixupKind) and X86 target fixup kinds that a
\* caller can hand to getRelocType.
GenericFixupKinds ==
  {"FK_Data_1", "FK_Data_2", "FK_Data_4", "FK_Data_8",
   "FK_PCRel_1", "FK_PCRel_2", "FK_PCRel_4", "FK_PCRel_8",
   "FK_SecRel_1", "FK_SecRel_2", "FK_SecRel_4", "FK_SecRel_8"}

X86FixupKinds ==
  {"reloc_riprel_4byte", "reloc_riprel_4byte_movq_load",
   "reloc_riprel_4byte_relax", "reloc_riprel_4byte_relax_rex",
   "reloc_signed_4byte", "reloc_signed_4byte_relax",
   "reloc_global_offset_table", "reloc_global_offset_table8",
   "reloc_branch_4byte_pcrel"}

FixupKinds == GenericFixupKinds \cup X86FixupKinds

\* MCSymbolRefExpr::VariantKind values of the referenced symbol.
VariantKinds == {"VK_None", "VK_COFF_IMGREL32", "VK_SECREL", "VK_GOT"}

\* Target expression: absolute, or relative to a symbol carrying a VariantKind.
Targets == [isAbsolute : {TRUE}, kind : {"VK_None"}]
             \cup [isAbsolute : {FALSE}, kind : VariantKinds]

NoCall == [FixupKind |-> "none",
           Target |-> [isAbsolute |-> TRUE, kind |-> "VK_None"],
           IsCrossSection |-> FALSE]

\* Lines 54-55: Modifier = Target.isAbsolute() ? VK_None : SymA->getKind()
Modifier(Target) ==
  IF Target.isAbsolute THEN "VK_None" ELSE Target.kind

\* Line 47: the cross-section test on the fixup kind.
CrossSectionRepresentable(FixupKind) ==
  FixupKind = "FK_Data_4" \/ FixupKind = "reloc_signed_4byte"

\* Kind as the line-51 slip "forgets to force PC-relative" would leave it.
EffectiveKindKeep(FixupKind, IsCrossSection) ==
  FixupKind

\* Lines 45-52: the kind the dispatch sees (after FixupKind = FK_PCRel_4).
EffectiveKind(FixupKind, IsCrossSection) ==
  IF IsCrossSection THEN "FK_PCRel_4" ELSE FixupKind

Result(code, diags) == [code |-> code, diags |-> diags]

\* AMD64 dispatch in which the 8-byte case is lost to the 4-byte group.
RelocTypeAMD64WrongWidth(FixupKind, Mod) ==
  CASE FixupKind \in {"FK_PCRel_4", "reloc_riprel_4byte",
                      "reloc_riprel_4byte_movq_load", "reloc_riprel_4byte_relax",
                      "reloc_riprel_4byte_relax_rex", "reloc_branch_4byte_pcrel"}
         -> Result("IMAGE_REL_AMD64_REL32", <<>>)
    [] FixupKind \in {"FK_Data_4", "FK_Data_8", "reloc_signed_4byte",
                      "reloc_signed_4byte_relax"}
         -> IF Mod = "VK_COFF_IMGREL32"
              THEN Result("IMAGE_REL_AMD64_ADDR32NB", <<>>)
            ELSE IF Mod = "VK_SECREL"
              THEN Result("IMAGE_REL_AMD64_SECREL", <<>>)
            ELSE Result("IMAGE_REL_AMD64_ADDR32", <<>>)
    [] FixupKind = "FK_SecRel_2" -> Result("IMAGE_REL_AMD64_SECTION", <<>>)
    [] FixupKind = "FK_SecRel_4" -> Result("IMAGE_REL_AMD64_SECREL", <<>>)
    [] OTHER -> Result("IMAGE_REL_AMD64_ADDR32", <<"unsupported relocation type">>)

\* Lines 58-83: switch (FixupKind) for IMAGE_FILE_MACHINE_AMD64.
RelocTypeAMD64(FixupKind, Mod) ==
  CASE FixupKind \in {"FK_PCRel_4", "reloc_riprel_4byte",
                      "reloc_riprel_4byte_movq_load", "reloc_riprel_4byte_relax",
                      "reloc_riprel_4byte_relax_rex", "reloc_branch_4byte_pcrel"}
         -> Result("IMAGE_REL_AMD64_REL32", <<>>)
    [] FixupKind \in {"FK_Data_4", "reloc_signed_4byte", "reloc_signed_4byte_relax"}
         -> IF Mod = "VK_COFF_IMGREL32"
              THEN Result("IMAGE_REL_AMD64_ADDR32NB", <<>>)
            ELSE IF Mod = "VK_SECREL"
              THEN Result("IMAGE_REL_AMD64_SECREL", <<>>)
            ELSE Result("IMAGE_REL_AMD64_ADDR32", <<>>)
    [] FixupKind = "FK_Data_8"   -> Result("IMAGE_REL_AMD64_ADDR64", <<>>)
    [] FixupKind = "FK_SecRel_2" -> Result("IMAGE_REL_AMD64_SECTION", <<>>)
    [] FixupKind = "FK_SecRel_4" -> Result("IMAGE_REL_AMD64_SECREL", <<>>)
    [] OTHER -> Result("IMAGE_REL_AMD64_ADDR32", <<"unsupported relocation type">>)

\* I386 dispatch whose default arm returns without reporting.
RelocTypeI386Silent(FixupKind, Mod) ==
  CASE FixupKind \in {"FK_PCRel_4", "reloc_riprel_4byte",
                      "reloc_riprel_4byte_movq_load"}
         -> Result("IMAGE_REL_I386_REL32", <<>>)
    [] FixupKind \in {"FK_Data_4", "reloc_signed_4byte", "reloc_signed_4byte_relax"}
         -> IF Mod = "VK_COFF_IMGREL32"
              THEN Result("IMAGE_REL_I386_DIR32NB", <<>>)
            ELSE IF Mod = "VK_SECREL"
              THEN Result("IMAGE_REL_AMD64_SECREL", <<>>)
            ELSE Result("IMAGE_REL_I386_DIR32", <<>>)
    [] FixupKind = "FK_SecRel_2" -> Result("IMAGE_REL_I386_SECTION", <<>>)
    [] FixupKind = "FK_SecRel_4" -> Result("IMAGE_REL_I386_SECREL", <<>>)
    [] OTHER -> Result("IMAGE_REL_I386_DIR32", <<>>)

\* I386 dispatch that lost the movq-load case label.
RelocTypeI386NoMovq(FixupKind, Mod) ==
  CASE FixupKind \in {"FK_PCRel_4", "reloc_riprel_4byte"}
         -> Result("IMAGE_REL_I386_REL32", <<>>)
    [] FixupKind \in {"FK_Data_4", "reloc_signed_4byte", "reloc_signed_4byte_relax"}
         -> IF Mod = "VK_COFF_IMGREL32"
              THEN Result("IMAGE_REL_I386_DIR32NB", <<>>)
            ELSE IF Mod = "VK_SECREL"
              THEN Result("IMAGE_REL_AMD64_SECREL", <<>>)
            ELSE Result("IMAGE_REL_I386_DIR32", <<>>)
    [] FixupKind = "FK_SecRel_2" -> Result("IMAGE_REL_I386_SECTION", <<>>)
    [] FixupKind = "FK_SecRel_4" -> Result("IMAGE_REL_I386_SECREL", <<>>)
    [] OTHER -> Result("IMAGE_REL_I386_DIR32", <<"unsupported relocation type">>)

\* I386 dispatch that returns the other machine's relative code.
RelocTypeI386SharedRel(FixupKind, Mod) ==
  CASE FixupKind \in {"FK_PCRel_4", "reloc_riprel_4byte",
                      "reloc_riprel_4byte_movq_load"}
         -> Result("IMAGE_REL_AMD64_REL32", <<>>)
    [] FixupKind \in {"FK_Data_4", "reloc_signed_4byte", "reloc_signed_4byte_relax"}
         -> IF Mod = "VK_COFF_IMGREL32"
              THEN Result("IMAGE_REL_I386_DIR32NB", <<>>)
            ELSE IF Mod = "VK_SECREL"
              THEN Result("IMAGE_REL_AMD64_SECREL", <<>>)
            ELSE Result("IMAGE_REL_I386_DIR32", <<>>)
    [] FixupKind = "FK_SecRel_2" -> Result("IMAGE_REL_I386_SECTION", <<>>)
    [] FixupKind = "FK_SecRel_4" -> Result("IMAGE_REL_I386_SECREL", <<>>)
    [] OTHER -> Result("IMAGE_REL_I386_DIR32", <<"unsupported relocation type">>)

\* Lines 85-105: switch (FixupKind) for IMAGE_FILE_MACHINE_I386.
RelocTypeI386(FixupKind, Mod) ==
  CASE FixupKind \in {"FK_PCRel_4", "reloc_riprel_4byte",
                      "reloc_riprel_4byte_movq_load"}
         -> Result("IMAGE_REL_I386_REL32", <<>>)
    [] FixupKind \in {"FK_Data_4", "reloc_signed_4byte", "reloc_signed_4byte_relax"}
         -> IF Mod = "VK_COFF_IMGREL32"
              THEN Result("IMAGE_REL_I386_DIR32NB", <<>>)
            ELSE IF Mod = "VK_SECREL"
              THEN Result("IMAGE_REL_AMD64_SECREL", <<>>)
            ELSE Result("IMAGE_REL_I386_DIR32", <<>>)
    [] FixupKind = "FK_SecRel_2" -> Result("IMAGE_REL_I386_SECTION", <<>>)
    [] FixupKind = "FK_SecRel_4" -> Result("IMAGE_REL_I386_SECREL", <<>>)
    [] OTHER -> Result("IMAGE_REL_I386_DIR32", <<"unsupported relocation type">>)

\* Lines 40-108: X86VPEObjectWriter::getRelocType on the writer built with
\* is64 (getMachine() is AMD64 when is64, I386 otherwise).
getRelocType(is64, Target, FixupKind, IsCrossSection) ==
  IF IsCrossSection /\ ~CrossSectionRepresentable(FixupKind)
    THEN Result("IMAGE_REL_AMD64_ADDR32", <<"Cannot represent this expression">>)
    ELSE IF is64
      THEN RelocTypeAMD64(EffectiveKind(FixupKind, IsCrossSection), Modifier(Target))
      ELSE RelocTypeI386(EffectiveKind(FixupKind, IsCrossSection), Modifier(Target))

\* The case labels of the two switches: the kinds each machine dispatches on.
DispatchKinds(is64) ==
  IF is64
    THEN {"FK_PCRel_4", "reloc_riprel_4byte", "reloc_riprel_4byte_movq_load",
          "reloc_riprel_4byte_relax", "reloc_riprel_4byte_relax_rex",
          "reloc_branch_4byte_pcrel", "FK_Data_4", "reloc_signed_4byte",
          "reloc_signed_4byte_relax", "FK_Data_8", "FK_SecRel_2", "FK_SecRel_4"}
    ELSE {"FK_PCRel_4", "reloc_riprel_4byte", "reloc_riprel_4byte_movq_load",
          "FK_Data_4", "reloc_signed_4byte", "reloc_signed_4byte_relax",
          "FK_SecRel_2", "FK_SecRel_4"}

\* Published numeric values of the COFF relocation constants
\* (COFF::RelocationTypeAMD64, COFF::RelocationTypesI386).
CodeValue(code) ==
  CASE code = "IMAGE_REL_AMD64_ADDR64"   -> 1
    [] code = "IMAGE_REL_AMD64_ADDR32"   -> 2
    [] code = "IMAGE_REL_AMD64_ADDR32NB" -> 3
    [] code = "IMAGE_REL_AMD64_REL32"    -> 4
    [] code = "IMAGE_REL_AMD64_SECTION"  -> 10
    [] code = "IMAGE_REL_AMD64_SECREL"   -> 11
    [] code = "IMAGE_REL_I386_DIR32"     -> 6
    [] code = "IMAGE_REL_I386_DIR32NB"   -> 7
    [] code = "IMAGE_REL_I386_SECTION"   -> 10
    [] code = "IMAGE_REL_I386_SECREL"    -> 11
    [] code = "IMAGE_REL_I386_REL32"     -> 20

InitReloc ==
  /\ Is64Bit \in BOOLEAN
  /\ call = NoCall
  /\ ret = "none"
  /\ reported = <<>>
  /\ HadError = FALSE

\* One call of getRelocType on the constructed writer.
GetRelocType ==
  \E Target \in Targets, FixupKind \in FixupKinds, IsCrossSection \in BOOLEAN :
    LET r == getRelocType(Is64Bit, Target, FixupKind, IsCrossSection) IN
      /\ call' = [FixupKind |-> FixupKind, Target |-> Target,
                  IsCrossSection |-> IsCrossSection]
      /\ ret' = r.code
      /\ reported' = r.diags
      /\ HadError' = (HadError \/ r.diags # <<>>)
      /\ UNCHANGED Is64Bit

(***************************************************************************)
(* MCSymbolVPE                                                             *)
(***************************************************************************)

\* Largest small type code and storage class the callers are modelled to pass,
\* next to the boundary values listed in TypeArgs and ClassArgs.
MaxType == 1
MaxClass == 2

TypeArgs  == (0..MaxType) \cup {65535}
ClassArgs == (0..MaxClass) \cup {255, 256, 511, 65535}

RECURSIVE BitAnd(_, _)
BitAnd(x, y) ==
  IF x = 0 \/ y = 0 THEN 0
  ELSE (x % 2) * (y % 2) + 2 * BitAnd(x \div 2, y \div 2)

RECURSIVE BitOr(_, _)
BitOr(x, y) ==
  IF x = 0 THEN y
  ELSE IF y = 0 THEN x
  ELSE (IF x % 2 = 1 \/ y % 2 = 1 THEN 1 ELSE 0) + 2 * BitOr(x \div 2, y \div 2)

\* Complement within the 16-bit flags word.
BitNot16(x) == 65535 - x

\* enum SymbolFlags (the SF_ prefix is reserved in TLA+ and is dropped)
ClassMask == 255
ClassShift == 0
WeakExternal == 256

ShiftLeft16(x, n) == (x * (2 ^ n)) % 65536
ShiftRight(x, n) == x \div (2 ^ n)

\* MCSymbol::modifyFlags(Value, Mask): read-modify-write of the flags word
\* that replaces the bits under Mask and preserves all others.
modifyFlags(flags, Value, Mask) ==
  BitOr(BitAnd(flags, BitNot16(Mask)), BitAnd(Value, Mask))

\* getClass reading one bit too few.
getClassNarrow(flags) ==
  ShiftRight(BitAnd(flags, 127), ClassShift)

getClass(flags) ==
  ShiftRight(BitAnd(flags, ClassMask), ClassShift)

setClass(flags, StorageClass) ==
  modifyFlags(flags, ShiftLeft16(StorageClass, ClassShift), ClassMask)

isWeakExternal(flags) ==
  BitAnd(flags, WeakExternal) # 0

\* setIsWeakExternal that flips the bit instead of setting it.
setIsWeakExternalToggle(flags) ==
  IF BitAnd(flags, WeakExternal) # 0
    THEN flags - WeakExternal
    ELSE flags + WeakExternal

setIsWeakExternal(flags) ==
  modifyFlags(flags, WeakExternal, WeakExternal)

InitSymbol ==
  /\ Type = 0
  /\ Flags = 0
  /\ lastOp = "none"
  /\ prevOp = "none"
  /\ lastClassArg = -1
  /\ weakCalled = FALSE
  /\ classInRange = TRUE

SetType ==
  \E Ty \in TypeArgs :
    /\ Type' = Ty
    /\ prevOp' = lastOp
    /\ lastOp' = "setType"
    /\ UNCHANGED <<Flags, lastClassArg, weakCalled, classInRange>>

SetClass ==
  \E StorageClass \in ClassArgs :
    /\ Flags' = setClass(Flags, StorageClass)
    /\ lastClassArg' = StorageClass
    /\ classInRange' = (classInRange /\ StorageClass <= ClassMask)
    /\ prevOp' = lastOp
    /\ lastOp' = "setClass"
    /\ UNCHANGED <<Type, weakCalled>>

SetIsWeakExternal ==
  /\ Flags' = setIsWeakExternal(Flags)
  /\ weakCalled' = TRUE
  /\ prevOp' = lastOp
  /\ lastOp' = "setIsWeakExternal"
  /\ UNCHANGED <<Type, lastClassArg, classInRange>>

(***************************************************************************)
(* VPEShortExport and VPEImportFile                                        *)
(***************************************************************************)

\* Largest export ordinal of the modelled descriptors.
MaxOrdinal == 1

Names       == {"foo", "bar"}
ExtNames    == {"", "baz"}
SymbolNames == {"_foo", "_bar@8"}
AliasNames  == {"", "weak"}

Exports ==
  [Name : Names, ExtName : ExtNames, SymbolName : SymbolNames,
   AliasTarget : AliasNames, Ordinal : 0..MaxOrdinal,
   Noname : BOOLEAN, Data : BOOLEAN, Private : BOOLEAN, Constant : BOOLEAN]

\* A default-constructed VPEShortExport.
DefaultExport ==
  [Name |-> "", ExtName |-> "", SymbolName |-> "", AliasTarget |-> "",
   Ordinal |-> 0, Noname |-> FALSE, Data |-> FALSE, Private |-> FALSE,
   Constant |-> FALSE]

\* operator== that forgets the Private flag.
ExportEqNoPrivate(l, r) ==
  /\ l.Name = r.Name /\ l.ExtName = r.ExtName
  /\ l.Ordinal = r.Ordinal /\ l.Noname = r.Noname
  /\ l.Data = r.Data

\* friend bool operator==(const VPEShortExport &L, const VPEShortExport &R)
ExportEq(l, r) ==
  /\ l.Name = r.Name /\ l.ExtName = r.ExtName
  /\ l.Ordinal = r.Ordinal /\ l.Noname = r.Noname
  /\ l.Data = r.Data /\ l.Private = r.Private

\* friend bool operator!=(const VPEShortExport &L, const VPEShortExport &R)
ExportNe(l, r) == ~ExportEq(l, r)

InitExport ==
  /\ L \in Exports
  /\ R \in Exports
  /\ compared = FALSE
  /\ eqResult = FALSE
  /\ neResult = FALSE

\* Evaluate L == R and L != R.
Compare ==
  /\ ~compared
  /\ compared' = TRUE
  /\ eqResult' = ExportEq(L, R)
  /\ neResult' = ExportNe(L, R)
  /\ UNCHANGED <<L, R>>

NoRecord == [type |-> "none", names |-> <<>>]

\* The lookup name written first: the renamed name if present, else the name.
ExternalName(e) == IF e.ExtName # "" THEN e.ExtName ELSE e.Name

\* The record the encoder writes for one export: header type, then the
\* embedded strings that follow the header.
EncodeShortImport(e) ==
  IF e.Data
    THEN [type |-> "IMPORT_DATA", names |-> <<ExternalName(e)>>]
    ELSE [type |-> "IMPORT_CODE", names |-> <<ExternalName(e), e.SymbolName>>]

\* VPEImportFile::isData
isData(rec) == rec.type = "IMPORT_DATA"

\* symbol_begin(): a value-initialised DataRefImpl.
symbol_begin == 0

\* symbol_end(): Symb.p = isData() ? 1 : 2
symbol_end(rec) == IF isData(rec) THEN 1 ELSE 2

\* moveSymbolNext: ++Symb.p
moveSymbolNext(p) == p + 1

\* printSymbolName: the string that starts right after the header,
\* whatever Symb is.
printSymbolName(rec, p) == rec.names[1]

InitImport ==
  /\ record = NoRecord
  /\ Symb = symbol_begin
  /\ printed = <<>>
  /\ iterDone = FALSE

\* The encoder writes the record of export L; the file is opened on it.
WriteRecord ==
  /\ record = NoRecord
  /\ record' = EncodeShortImport(L)
  /\ Symb' = symbol_begin
  /\ UNCHANGED <<printed, iterDone>>

\* One round of the loop: print the current entry, then moveSymbolNext.
VisitSymbol ==
  /\ record # NoRecord
  /\ ~iterDone
  /\ Symb # symbol_end(record)
  /\ printed' = Append(printed, printSymbolName(record, Symb))
  /\ Symb' = moveSymbolNext(Symb)
  /\ UNCHANGED <<record, iterDone>>

\* The iterator compares equal to symbol_end(): the loop exits.
EndIteration ==
  /\ record # NoRecord
  /\ ~iterDone
  /\ Symb = symbol_end(record)
  /\ iterDone' = TRUE
  /\ UNCHANGED <<record, Symb, printed>>

(***************************************************************************)
(* Specifications                                                          *)
(***************************************************************************)

IdleReloc ==
  /\ Is64Bit = TRUE /\ call = NoCall /\ ret = "none"
  /\ reported = <<>> /\ HadError = FALSE

IdleExport ==
  /\ L = DefaultExport /\ R = DefaultExport
  /\ compared = FALSE /\ eqResult = FALSE /\ neResult = FALSE

\* Relocation resolver.
Init == InitReloc /\ InitSymbol /\ InitImport /\ IdleExport
Next == GetRelocType /\ UNCHANGED <<symbolVars, importVars, exportVars>>
Spec == Init /\ [][Next]_vars

\* Symbol attribute model.
InitSym == IdleReloc /\ InitSymbol /\ InitImport /\ IdleExport
NextSym ==
  \/ SetType /\ UNCHANGED <<relocVars, importVars, exportVars>>
  \/ SetClass /\ UNCHANGED <<relocVars, importVars, exportVars>>
  \/ SetIsWeakExternal /\ UNCHANGED <<relocVars, importVars, exportVars>>
SpecSym == InitSym /\ [][NextSym]_vars

\* Export descriptor comparison.
InitExp == IdleReloc /\ InitSymbol /\ InitImport /\ InitExport
NextExp == Compare /\ UNCHANGED <<relocVars, symbolVars, importVars>>
SpecExp == InitExp /\ [][NextExp]_vars

\* Encoding an export and reading the record back through the symbol view.
InitImp ==
  /\ IdleReloc /\ InitSymbol /\ InitImport
  /\ L \in Exports /\ R = DefaultExport
  /\ compared = FALSE /\ eqResult = FALSE /\ neResult = FALSE
NextImp ==
  \/ WriteRecord /\ UNCHANGED <<relocVars, symbolVars, exportVars>>
  \/ VisitSymbol /\ UNCHANGED <<relocVars, symbolVars, exportVars>>
  \/ EndIteration /\ UNCHANGED <<relocVars, symbolVars, exportVars>>
SpecImp == InitImp /\ [][NextImp]_vars

(***************************************************************************)
(* Properties                                                              *)
(***************************************************************************)

Called == call.FixupKind # "none"

RelativeKinds ==
  {"FK_PCRel_4", "reloc_riprel_4byte", "reloc_riprel_4byte_movq_load",
   "reloc_riprel_4byte_relax", "reloc_riprel_4byte_relax_rex",
   "reloc_branch_4byte_pcrel"}

Absolute4Kinds == {"FK_Data_4", "reloc_signed_4byte", "reloc_signed_4byte_relax"}

GenericAbsolute == IF Is64Bit THEN "IMAGE_REL_AMD64_ADDR32" ELSE "IMAGE_REL_I386_DIR32"

GenericRelative == IF Is64Bit THEN "IMAGE_REL_AMD64_REL32" ELSE "IMAGE_REL_I386_REL32"

\* C1: a cross-section call with a kind other than FK_Data_4 or
\* reloc_signed_4byte reports "Cannot represent this expression" and returns
\* the generic 32-bit absolute code of the writer's own machine.
C1_CrossSectionFallback ==
  (Called /\ call.IsCrossSection
     /\ call.FixupKind \notin {"FK_Data_4", "reloc_signed_4byte"})
    => /\ reported = <<"Cannot represent this expression">>
       /\ ret = GenericAbsolute

\* The kinds the tabulation of C2 lists for each machine.
C2Kinds ==
  IF Is64Bit
    THEN RelativeKinds \cup Absolute4Kinds \cup {"FK_Data_8", "FK_SecRel_2", "FK_SecRel_4"}
    ELSE {"FK_PCRel_4"} \cup Absolute4Kinds \cup {"FK_SecRel_2", "FK_SecRel_4"}

\* The code the tabulation of C2 gives for kind k under modifier m.
C2Code(k, m) ==
  IF Is64Bit
    THEN CASE k \in RelativeKinds -> "IMAGE_REL_AMD64_REL32"
           [] k \in Absolute4Kinds ->
                (CASE m = "VK_COFF_IMGREL32" -> "IMAGE_REL_AMD64_ADDR32NB"
                   [] m = "VK_SECREL" -> "IMAGE_REL_AMD64_SECREL"
                   [] OTHER -> "IMAGE_REL_AMD64_ADDR32")
           [] k = "FK_Data_8" -> "IMAGE_REL_AMD64_ADDR64"
           [] k = "FK_SecRel_2" -> "IMAGE_REL_AMD64_SECTION"
           [] k = "FK_SecRel_4" -> "IMAGE_REL_AMD64_SECREL"
    ELSE CASE k = "FK_PCRel_4" -> "IMAGE_REL_I386_REL32"
           [] k \in Absolute4Kinds ->
                (CASE m = "VK_COFF_IMGREL32" -> "IMAGE_REL_I386_DIR32NB"
                   [] m = "VK_SECREL" -> "IMAGE_REL_AMD64_SECREL"
                   [] OTHER -> "IMAGE_REL_I386_DIR32")
           [] k = "FK_SecRel_2" -> "IMAGE_REL_I386_SECTION"
           [] k = "FK_SecRel_4" -> "IMAGE_REL_I386_SECREL"

\* C2: without the cross-section flag every tabulated kind returns its
\* tabulated code and reports nothing; an absolute target counts as modifier
\* none, and only the three 4-byte absolute/signed kinds look at the modifier.
C2_Tabulated ==
  (Called /\ ~call.IsCrossSection /\ call.FixupKind \in C2Kinds)
    => /\ reported = <<>>
       /\ ret = C2Code(call.FixupKind,
                       IF call.Target.isAbsolute THEN "VK_None" ELSE call.Target.kind)
       /\ call.FixupKind \notin Absolute4Kinds
            => ret = C2Code(call.FixupKind, "VK_None")

\* The 32-bit section-relative quirk has been exercised.
C2_Witness ==
  /\ Called /\ ~Is64Bit /\ ~call.IsCrossSection
  /\ call.FixupKind = "reloc_signed_4byte_relax"
  /\ ~call.Target.isAbsolute /\ call.Target.kind = "VK_SECREL"
  /\ ret = "IMAGE_REL_AMD64_SECREL"

\* C3: a cross-section call with FK_Data_4 or reloc_signed_4byte returns the
\* machine's 32-bit relative code for every target and modifier, and reports
\* nothing.
C3_CrossSectionRelative ==
  (Called /\ call.IsCrossSection
     /\ call.FixupKind \in {"FK_Data_4", "reloc_signed_4byte"})
    => /\ reported = <<>>
       /\ ret = GenericRelative

\* A cross-section 4-byte absolute fixup with a section-relative symbol was
\* resolved on the 32-bit writer.
C3_Witness ==
  /\ Called /\ ~Is64Bit /\ call.IsCrossSection
  /\ call.FixupKind = "FK_Data_4"
  /\ ~call.Target.isAbsolute /\ call.Target.kind = "VK_SECREL"
  /\ ret = "IMAGE_REL_I386_REL32"

\* What the other machine's writer returns for the arguments of the last call.
OtherMachine ==
  getRelocType(~Is64Bit, call.Target, call.FixupKind, call.IsCrossSection)

BothResolve == Called /\ reported = <<>> /\ OtherMachine.diags = <<>>

\* C7 as stated: whenever both machines resolve the same arguments without a
\* diagnostic, their numeric codes differ.
C7_NeverShared ==
  BothResolve => CodeValue(ret) # CodeValue(OtherMachine.code)

\* The arguments for which both machines return the same number.
C7Shared ==
  /\ ~call.IsCrossSection
  /\ \/ call.FixupKind \in {"FK_SecRel_2", "FK_SecRel_4"}
     \/ /\ call.FixupKind \in Absolute4Kinds
        /\ ~call.Target.isAbsolute
        /\ call.Target.kind = "VK_SECREL"

\* C7 amended: the numeric codes of the two machines differ except for the
\* section-index and section-relative relocations (FK_SecRel_2, FK_SecRel_4,
\* and a 4-byte absolute/signed kind with the section-relative modifier, all
\* without the cross-section flag), where they are equal.
C7_SharedOnlySection ==
  BothResolve
    => (CodeValue(ret) = CodeValue(OtherMachine.code) <=> C7Shared)

\* A PC-relative fixup resolved by both machines to different numbers.
C7_Witness ==
  /\ BothResolve /\ Is64Bit /\ call.FixupKind = "FK_PCRel_4"
  /\ ret = "IMAGE_REL_AMD64_REL32"
  /\ OtherMachine.code = "IMAGE_REL_I386_REL32"

\* C9 as stated: without the cross-section flag all six relative kinds
\* resolve silently to the machine's 32-bit relative code, on both machines.
C9_AllRelative ==
  (Called /\ ~call.IsCrossSection /\ call.FixupKind \in RelativeKinds)
    => /\ reported = <<>>
       /\ ret = GenericRelative

\* C9 amended: on the 64-bit target all six relative kinds give AMD64_REL32
\* silently; on the 32-bit target FK_PCRel_4, reloc_riprel_4byte and
\* reloc_riprel_4byte_movq_load give I386_REL32 silently, while
\* reloc_riprel_4byte_relax, reloc_riprel_4byte_relax_rex and
\* reloc_branch_4byte_pcrel report "unsupported relocation type" and give
\* I386_DIR32.
C9_RelativePerMachine ==
  (Called /\ ~call.IsCrossSection /\ call.FixupKind \in RelativeKinds)
    => IF Is64Bit \/ call.FixupKind \in {"FK_PCRel_4", "reloc_riprel_4byte",
                                         "reloc_riprel_4byte_movq_load"}
         THEN reported = <<>> /\ ret = GenericRelative
         ELSE /\ reported = <<"unsupported relocation type">>
              /\ ret = "IMAGE_REL_I386_DIR32"

\* The 32-bit writer resolved a RIP-relative movq load.
C9_Witness ==
  /\ Called /\ ~Is64Bit /\ ~call.IsCrossSection
  /\ call.FixupKind = "reloc_riprel_4byte_movq_load"
  /\ ret = "IMAGE_REL_I386_REL32" /\ reported = <<>>

RelocCodes ==
  {"IMAGE_REL_AMD64_ADDR64", "IMAGE_REL_AMD64_ADDR32", "IMAGE_REL_AMD64_ADDR32NB",
   "IMAGE_REL_AMD64_REL32", "IMAGE_REL_AMD64_SECTION", "IMAGE_REL_AMD64_SECREL",
   "IMAGE_REL_I386_DIR32", "IMAGE_REL_I386_DIR32NB", "IMAGE_REL_I386_SECTION",
   "IMAGE_REL_I386_SECREL", "IMAGE_REL_I386_REL32"}

\* C10: every call returns one relocation code and reports at most one
\* diagnostic; without the cross-section flag "unsupported relocation type"
\* is reported exactly for the kinds outside the machine's dispatch table,
\* and the code is then the machine's generic 32-bit absolute code.
C10_TotalBestEffort ==
  Called
    => /\ ret \in RelocCodes
       /\ Len(reported) <= 1
       /\ reported # <<>> => HadError
       /\ ~call.IsCrossSection
            => /\ reported # <<>> <=> call.FixupKind \notin DispatchKinds(Is64Bit)
               /\ reported # <<>>
                    => /\ reported = <<"unsupported relocation type">>
                       /\ ret = GenericAbsolute

\* An 8-byte absolute fixup was rejected by the 32-bit writer.
C10_Witness ==
  /\ Called /\ ~Is64Bit /\ ~call.IsCrossSection
  /\ call.FixupKind = "FK_Data_8"
  /\ reported = <<"unsupported relocation type">>
  /\ ret = "IMAGE_REL_I386_DIR32"

C5_WeakMonotonicIdempotent ==
  [][/\ isWeakExternal(Flags) => isWeakExternal(Flags')
     /\ (lastOp = "setIsWeakExternal" /\ lastOp' = "setIsWeakExternal")
          => /\ Type' = Type
             /\ getClass(Flags') = getClass(Flags)
             /\ isWeakExternal(Flags') = isWeakExternal(Flags)
             /\ isWeakExternal(Flags')]_vars

\* setIsWeakExternal was called twice in a row on a symbol with a class and
\* a type.
C5_Witness ==
  /\ lastOp = "setIsWeakExternal" /\ prevOp = "setIsWeakExternal"
  /\ isWeakExternal(Flags) /\ getClass(Flags) = 255 /\ Type = 65535

\* C6: after the walk from symbol_begin() to symbol_end() a code import has
\* printed the external name and then the mangled symbol name, a data import
\* the external name alone.
C6_RoundTripNames ==
  iterDone
    => printed = (IF L.Data THEN <<ExternalName(L)>>
                            ELSE <<ExternalName(L), L.SymbolName>>)

\* C8: L == R holds exactly when the two descriptors agree on Name, ExtName,
\* Ordinal, Noname, Data and Private, and L != R is its negation.
C8_EqualityFields ==
  compared
    => /\ eqResult <=> (/\ L.Name = R.Name /\ L.ExtName = R.ExtName
                        /\ L.Ordinal = R.Ordinal /\ L.Noname = R.Noname
                        /\ L.Data = R.Data /\ L.Private = R.Private)
       /\ neResult <=> ~eqResult

\* Two descriptors that differ only in SymbolName, AliasTarget and Constant
\* compared equal.
C8_Witness ==
  /\ compared /\ eqResult /\ ~neResult
  /\ L.SymbolName # R.SymbolName /\ L.AliasTarget # R.AliasTarget
  /\ L.Constant # R.Constant

====
